---- MODULE Spec2Model ----
(***************************************************************************)
(* A model of sui-harvest's event monitor (src/src/main.rs): the producer  *)
(* (EventExtractWorker) sends batches of events over a channel, a spawned  *)
(* consumer task folds them into a two-level histogram and a per-package   *)
(* counter, then ranks, suppresses and prints them, while the main task    *)
(* awaits the producer's completion handle and then the consumer.          *)
(*                                                                         *)
(* Granularity: one step of the consumer folds one event-record (one call  *)
(* of the closure at main.rs:119-129).  The histogram and the counters are *)
(* owned by the consumer task alone, so no other task can observe a state  *)
(* inside that closure.                                                    *)
(***************************************************************************)
EXTENDS Integers, Sequences, FiniteSets, TLC

\* ------------------------------------------------------------------ bounds
\* The producer sends at most MaxBatches batches of at most MaxBatchLen events.
MaxBatches == 2
MaxBatchLen == 2
\* Checkpoint sequence numbers and --count are u64; the model keeps
\* CheckpointBits bits of them.
CheckpointBits == 4

\* ------------------------------------------------------------ type tags
\* sui_types::TypeTag as a tagged tuple: <<"struct", StructTag>>,
\* <<"vector", TypeTag>> or a primitive <<"u64">>.
StructT(s) == <<"struct", s>>
VectorT(t) == <<"vector", t>>
U64T == <<"u64">>

BarTag == [address |-> "0xb", module |-> "mod", name |-> "Bar", type_params |-> <<>>]
FooBarTag == [address |-> "0xa", module |-> "mod", name |-> "Foo",
              type_params |-> <<StructT(BarTag)>>]
FooVecTag == [address |-> "0xa", module |-> "mod", name |-> "Foo",
              type_params |-> <<VectorT(StructT(BarTag))>>]
PairTag == [address |-> "0xc", module |-> "pool", name |-> "Pair",
            type_params |-> <<U64T, StructT(BarTag)>>]

\* The event types (event.type_) and packages (event.package_id) of the model.
EventTypes == {FooBarTag, FooVecTag, BarTag}
Packages == {"0x1", "0x2"}
Addresses == {t.address : t \in EventTypes}

\* The event-records the producer may emit: address 0xa has two event types and
\* emits through both packages, package 0x2 serves both addresses.
Events == {[type_ |-> FooBarTag, package_id |-> "0x1"],
           [type_ |-> FooVecTag, package_id |-> "0x2"],
           [type_ |-> BarTag, package_id |-> "0x2"]}

\* Every event-record of the model: those above, and one of a third address that
\* the report's workloads use.
AllEvents == Events \cup {[type_ |-> PairTag, package_id |-> "0x2"]}

\* A batch (the `data` of one channel message): a sequence of event-records.
Batches == UNION {[1..n -> Events] : n \in 0..MaxBatchLen}

\* ------------------------------------------------------------ helpers
EmptyMap == [k \in {} |-> 0]

RECURSIVE SumSet(_, _)
\* Sum of f[k] over the keys k of S.
SumSet(S, f) ==
    IF S = {} THEN 0
    ELSE LET k == CHOOSE x \in S : TRUE IN f[k] + SumSet(S \ {k}, f)

\* iter().map(..).sum() over the values of a map.
SumValues(m) == SumSet(DOMAIN m, m)

\* The iteration orders a HashMap with key set S may have (std's HashMap is
\* seeded per map: any order of the keys).
IterOrders(S) ==
    {o \in [1..Cardinality(S) -> S] : \A i, j \in 1..Cardinality(S) : i # j => o[i] # o[j]}

VARIABLES
    suppress,           \* args.suppress, a fraction [num, den] of per cent
    follow,             \* args.follow
    limit,              \* args.count (main.rs:82)
    latest_checkpoint,  \* main.rs:77
    initial,            \* main.rs:84, the starting checkpoint
    ppc,                \* producer: "idle", "running", "ok" or "failed"
    chan,               \* the channel's queue of batches
    closed,             \* all senders dropped
    sentBag,            \* history: how often each event-record was enqueued
    nsent,              \* history: number of batches enqueued
    mpc,                \* main task's position
    cpc,                \* consumer task's position
    data,               \* the rest of the batch being folded
    histogram,          \* address -> [total, inner: type_ -> count]
    events_by_package,  \* package_id -> count
    foldedBag,          \* history: how often each event-record was folded
    nrecv,              \* history: number of batches received
    ingested,           \* history: number of event-records folded
    ranking,            \* the sorted Vec of buckets still to render (their addresses)
    total_events,       \* main.rs:137
    cutoff,             \* main.rs:139
    output              \* the lines printed by the consumer

vars == <<suppress, follow, limit, latest_checkpoint, initial, ppc, chan, closed, sentBag, nsent, mpc, cpc, data, histogram,
          events_by_package, foldedBag, nrecv, ingested, ranking, total_events,
          cutoff, output>>

argVars == <<suppress, follow, limit, latest_checkpoint, initial>>
producerVars == <<ppc, chan, closed, sentBag, nsent>>
aggVars == <<histogram, events_by_package, foldedBag, ingested>>
reportVars == <<ranking, total_events, cutoff, output>>

\* ------------------------------------------------------- pure functions
\* FoldHistogram with the nested count inserted but not incremented.
FoldHistogramNoNested(h, e) ==
    LET a == e.type_.address
        entry == IF a \in DOMAIN h THEN h[a] ELSE [total |-> 0, inner |-> EmptyMap]
        old == IF e.type_ \in DOMAIN entry.inner THEN entry.inner[e.type_] ELSE 0
    IN (a :> [total |-> entry.total + 1,
              inner |-> (e.type_ :> old) @@ entry.inner]) @@ h

\* FoldHistogram with a bucket that restarts from (0, HashMap::new()) whenever the
\* event's type is new to it (insert in place of entry().or_insert()).
FoldHistogramReset(h, e) ==
    LET a == e.type_.address
        fresh == [total |-> 0, inner |-> EmptyMap]
        entry == IF a \in DOMAIN h /\ e.type_ \in DOMAIN h[a].inner THEN h[a] ELSE fresh
        old == IF e.type_ \in DOMAIN entry.inner THEN entry.inner[e.type_] ELSE 0
    IN (a :> [total |-> entry.total + 1,
              inner |-> (e.type_ :> (old + 1)) @@ entry.inner]) @@ h

\* main.rs:120-125, the histogram part of the closure: entry(address).or_insert((0,
\* HashMap::new())), entry.0 += 1, entry.1.entry(type_).or_insert(0) += 1.
FoldHistogram(h, e) ==
    LET a == e.type_.address
        entry == IF a \in DOMAIN h THEN h[a] ELSE [total |-> 0, inner |-> EmptyMap]
        old == IF e.type_ \in DOMAIN entry.inner THEN entry.inner[e.type_] ELSE 0
    IN (a :> [total |-> entry.total + 1,
              inner |-> (e.type_ :> (old + 1)) @@ entry.inner]) @@ h

\* FoldPackage with or_insert(1) in place of or_insert(0): a new package starts at 2.
FoldPackageFromOne(p, e) ==
    LET old == IF e.package_id \in DOMAIN p THEN p[e.package_id] ELSE 1
    IN (e.package_id :> (old + 1)) @@ p

\* FoldPackage with insert(package_id, 1) in place of the entry: a known package
\* starts again at 1.
FoldPackageOverwrite(p, e) == (e.package_id :> 1) @@ p

\* main.rs:127-128: events_by_package.entry(package_id).or_insert(0) += 1.
FoldPackage(p, e) ==
    LET old == IF e.package_id \in DOMAIN p THEN p[e.package_id] ELSE 0
    IN (e.package_id :> (old + 1)) @@ p

\* InsertDesc with the comparison turned round (a.cmp(b)): ascending.
InsertAsc(s, x, cnt) ==
    LET n == Cardinality({i \in 1..Len(s) : cnt[s[i]] <= cnt[x]})
    IN SubSeq(s, 1, n) \o <<x>> \o SubSeq(s, n + 1, Len(s))

\* Where x goes in a list s already sorted by descending cnt: after every element
\* whose count is not smaller (sort_by is stable, x came after them).
InsertDesc(s, x, cnt) ==
    LET n == Cardinality({i \in 1..Len(s) : cnt[s[i]] >= cnt[x]})
    IN SubSeq(s, 1, n) \o <<x>> \o SubSeq(s, n + 1, Len(s))

RECURSIVE SortDesc(_, _)
\* Vec::sort_by(|a, b| b.count.cmp(&a.count)): a stable sort, descending by count.
SortDesc(s, cnt) ==
    IF s = <<>> THEN <<>>
    ELSE InsertDesc(SortDesc(SubSeq(s, 1, Len(s) - 1), cnt), s[Len(s)], cnt)

\* The bucket totals (value.0) by address.
Totals(h) == [a \in DOMAIN h |-> h[a].total]

\* main.rs:139: (total_events as f64 * suppress / 100.0).round() as usize, for a
\* suppress of sup.num / sup.den >= 0.  f64::round rounds half away from zero.
\* (The f64 arithmetic is exact for the dyadic fractions and small totals here.)
Cutoff(total, sup) == (2 * total * sup.num + 100 * sup.den) \div (200 * sup.den)

\* Kept with the comparison off by one: value.0 <= cutoff skips the bucket.
KeptAbove(count, cut) == ~(count <= cut)

\* main.rs:145: the bucket is skipped when value.0 < cutoff.
Kept(count, cut) == ~(count < cut)

RECURSIVE Join(_)
\* .collect::<Vec<_>>().join(", ") of a list of strings.
Join(parts) ==
    IF parts = <<>> THEN ""
    ELSE IF Len(parts) = 1 THEN parts[1]
    ELSE parts[1] \o ", " \o Join(Tail(parts))

RECURSIVE tag_to_short_string(_), type_to_short_string(_)
\* main.rs:41-47.  A primitive tag is its canonical string (to_canonical_string).
tag_to_short_string(tag_) ==
    IF tag_[1] = "struct" THEN type_to_short_string(tag_[2])
    ELSE IF tag_[1] = "vector" THEN "Vector<" \o tag_to_short_string(tag_[2]) \o ">"
    ELSE tag_[1]

\* type_to_short_string with the address kept, as StructTag's own Display has it.
type_to_canonical_string(type_) ==
    LET base == type_.address \o "::" \o type_.module \o "::" \o type_.name
    IN IF type_.type_params = <<>> THEN base
       ELSE base \o "<"
            \o Join([i \in 1..Len(type_.type_params) |->
                        tag_to_short_string(type_.type_params[i])])
            \o ">"

\* main.rs:49-63.
type_to_short_string(type_) ==
    LET base == type_.module \o "::" \o type_.name
    IN IF type_.type_params = <<>> THEN base
       ELSE base \o "<"
            \o Join([i \in 1..Len(type_.type_params) |->
                        tag_to_short_string(type_.type_params[i])])
            \o ">"

\* main.rs:149-160: the lines of one bucket, its event types in the stable
\* descending sort of the inner map's iteration order io.
BucketLines(h, a, io) ==
    LET inner == SortDesc(io, h[a].inner)
    IN <<<<"bucket", h[a].total, a>>>>
       \o [i \in 1..Len(inner) |->
              <<"type", h[a].inner[inner[i]], type_to_short_string(inner[i])>>]

\* PackageLines with the cutoff applied to the packages as it is to the buckets.
PackageLinesSuppressed(p, po) ==
    LET kept == SelectSeq(po, LAMBDA k : Kept(p[k], cutoff))
    IN <<<<"header">>>> \o [i \in 1..Len(kept) |-> <<"package", kept[i], p[kept[i]]>>]

\* main.rs:163-166: the per-package listing, in the map's iteration order po.
PackageLines(p, po) ==
    <<<<"header">>>> \o [i \in 1..Len(po) |-> <<"package", po[i], p[po[i]]>>]

\* main.rs:168: events_by_package.values().sum::<usize>() / total_packages, an
\* integer division (total_packages > 0).
Average(p) == SumValues(p) \div Cardinality(DOMAIN p)

\* main.rs:169-173: statrs' Statistics::std_dev, the sample standard deviation
\* (normalizer N - 1), NaN for fewer than two values.  The value is modelled as
\* <<"NaN">> or as <<"sqrt", num, den>>, the square root of num / den.
StdDev(p) ==
    LET n == Cardinality(DOMAIN p)
        sq == [k \in DOMAIN p |-> p[k] * p[k]]
    IN IF n < 2 THEN <<"NaN">>
       ELSE <<"sqrt", n * SumValues(sq) - SumValues(p) * SumValues(p), n * (n - 1)>>

\* RecvNone as try_recv would have it: None as soon as the queue is empty.
RecvNoneWhenEmpty == chan = <<>>

\* main.rs:117: recv() returns None: every sender is dropped and the queue is empty.
RecvNone == closed /\ chan = <<>>

\* ------------------------------------------------------------ initial state
\* The values of --suppress tried: the default 0.5 per cent, and 50 per cent.
SuppressArgs == {[num |-> 1, den |-> 2], [num |-> 50, den |-> 1]}

NoEvents == [e \in AllEvents |-> 0]

\* The number of values of a checkpoint sequence number.
Modulus == 2 ^ CheckpointBits

\* main.rs:17: the default of --count.
DefaultCount == 10

\* a - b on unsigned integers (main.rs:93, 96): the difference when it is not
\* negative; otherwise the build decides: a panic with overflow checks (debug),
\* the wrapped value without them (release).
SubUnsigned(a, b) ==
    IF b <= a THEN {<<"ok", a - b>>}
    ELSE {<<"panic">>, <<"ok", (a - b) % Modulus>>}

\* u64::max (main.rs:96).
Max(a, b) == IF a >= b THEN a ELSE b

\* main has parsed its arguments (the default --count, not --follow), found the
\* latest checkpoint and is about to call EventExtractWorker::new.
Init ==
    /\ suppress \in SuppressArgs
    /\ follow = FALSE
    /\ limit = DefaultCount
    /\ latest_checkpoint = Modulus - 1
    /\ initial = Max(Modulus - 1 - DefaultCount, 0)
    /\ ppc = "idle"
    /\ chan = <<>>
    /\ closed = FALSE
    /\ sentBag = NoEvents
    /\ nsent = 0
    /\ mpc = "new"
    /\ cpc = "idle"
    /\ data = <<>>
    /\ histogram = EmptyMap
    /\ events_by_package = EmptyMap
    /\ foldedBag = NoEvents
    /\ nrecv = 0
    /\ ingested = 0
    /\ ranking = <<>>
    /\ total_events = 0
    /\ cutoff = 0
    /\ output = <<>>

\* ------------------------------------------------------------ main task
\* main.rs:100-112: EventExtractWorker::new succeeds; the consumer is spawned.
NewWorker ==
    /\ mpc = "new"
    /\ mpc' = "await_executor"
    /\ ppc' = "running"
    /\ cpc' = "recv"
    /\ UNCHANGED <<argVars, chan, closed, sentBag, nsent, data, aggVars, nrecv, reportVars>>

\* main.rs:109: EventExtractWorker::new fails and `?` returns the error.
NewWorkerErr ==
    /\ mpc = "new"
    /\ mpc' = "err_new"
    /\ UNCHANGED <<argVars, producerVars, cpc, data, aggVars, nrecv, reportVars>>

\* main.rs:180: executor.await is Ok; main goes on to join.await.
ExecutorOk ==
    /\ mpc = "await_executor"
    /\ ppc = "ok"
    /\ mpc' = "await_join"
    /\ UNCHANGED <<argVars, producerVars, cpc, data, aggVars, nrecv, reportVars>>

\* ExecutorErr with the error set aside (let _ = executor.await): main goes on to
\* join.await.
ExecutorErrIgnored ==
    /\ mpc = "await_executor"
    /\ ppc = "failed"
    /\ mpc' = "await_join"
    /\ UNCHANGED <<argVars, producerVars, cpc, data, aggVars, nrecv, reportVars>>

\* main.rs:180: executor.await is Err and `?` returns it: main does not reach
\* join.await.
ExecutorErr ==
    /\ mpc = "await_executor"
    /\ ppc = "failed"
    /\ mpc' = "err_executor"
    /\ UNCHANGED <<argVars, producerVars, cpc, data, aggVars, nrecv, reportVars>>

\* main.rs:181-182: the consumer task has finished; main returns Ok(()).
JoinOk ==
    /\ mpc = "await_join"
    /\ cpc = "done"
    /\ mpc' = "exit_ok"
    /\ UNCHANGED <<argVars, producerVars, cpc, data, aggVars, nrecv, reportVars>>

\* JoinErr with the result dropped (let _ = join.await): main returns Ok(()).
JoinErrIgnored ==
    /\ mpc = "await_join"
    /\ cpc = "panicked"
    /\ mpc' = "exit_ok"
    /\ UNCHANGED <<argVars, producerVars, cpc, data, aggVars, nrecv, reportVars>>

\* main.rs:181: the consumer task panicked; join.await is Err and `?` returns it.
JoinErr ==
    /\ mpc = "await_join"
    /\ cpc = "panicked"
    /\ mpc' = "err_join"
    /\ UNCHANGED <<argVars, producerVars, cpc, data, aggVars, nrecv, reportVars>>

MainReturned ==
    mpc \in {"exit_ok", "err_client", "err_latest", "panicked_main", "err_new",
              "err_executor", "err_join"}

\* main.rs:65: #[tokio::main] drops the runtime when main returns; a task that is
\* suspended (here: at receiver.recv().await) is dropped, a task that is running
\* goes on to its next suspension point.
RuntimeShutdown ==
    /\ MainReturned
    /\ cpc = "recv"
    /\ cpc' = "cancelled"
    /\ UNCHANGED <<argVars, producerVars, mpc, data, aggVars, nrecv, reportVars>>

\* ------------------------------------------------------------ producer
RECURSIVE AddAll(_, _)
\* The bag b with every event-record of the batch added.
AddAll(b, batch) ==
    IF batch = <<>> THEN b
    ELSE AddAll([b EXCEPT ![Head(batch)] = @ + 1], Tail(batch))

\* The Event Source sends (checkpoint summary, batch) on the channel.
Send(batch) ==
    /\ ppc = "running"
    /\ nsent < MaxBatches
    /\ chan' = Append(chan, batch)
    /\ sentBag' = AddAll(sentBag, batch)
    /\ nsent' = nsent + 1
    /\ UNCHANGED <<argVars, ppc, closed, mpc, cpc, data, aggVars, nrecv, reportVars>>

\* The Event Source completes: its sender is dropped, its handle reports Ok.
Complete ==
    /\ ppc = "running"
    /\ ppc' = "ok"
    /\ closed' = TRUE
    /\ UNCHANGED <<argVars, chan, sentBag, nsent, mpc, cpc, data, aggVars, nrecv, reportVars>>

\* The Event Source fails: its sender is dropped, its handle reports the error.
Fail ==
    /\ ppc = "running"
    /\ ppc' = "failed"
    /\ closed' = TRUE
    /\ UNCHANGED <<argVars, chan, sentBag, nsent, mpc, cpc, data, aggVars, nrecv, reportVars>>

\* ------------------------------------------------------------ consumer task
\* main.rs:117: recv() returns Some((_summary, data)).
RecvBatch ==
    /\ cpc = "recv"
    /\ chan # <<>>
    /\ data' = Head(chan)
    /\ chan' = Tail(chan)
    /\ nrecv' = nrecv + 1
    /\ cpc' = "fold"
    /\ UNCHANGED <<argVars, ppc, closed, sentBag, nsent, mpc, aggVars, reportVars>>

\* main.rs:119-129: one call of the closure, folding the next event of the batch.
FoldEvent ==
    /\ cpc = "fold"
    /\ data # <<>>
    /\ histogram' = FoldHistogram(histogram, Head(data))
    /\ events_by_package' = FoldPackage(events_by_package, Head(data))
    /\ foldedBag' = [foldedBag EXCEPT ![Head(data)] = @ + 1]
    /\ ingested' = ingested + 1
    /\ data' = Tail(data)
    /\ UNCHANGED <<argVars, producerVars, mpc, cpc, nrecv, reportVars>>

\* main.rs:119/130: for_each is over; back to receiver.recv().
EndBatch ==
    /\ cpc = "fold"
    /\ data = <<>>
    /\ cpc' = "recv"
    /\ UNCHANGED <<argVars, producerVars, mpc, data, aggVars, nrecv, reportVars>>

\* main.rs:117: recv() returns None and the loop ends.
EndStream ==
    /\ cpc = "recv"
    /\ RecvNone
    /\ cpc' = "rank"
    /\ UNCHANGED <<argVars, producerVars, mpc, data, aggVars, nrecv, reportVars>>

\* main.rs:133-142: collect the histogram into a Vec (in the map's iteration
\* order), sort it, sum the totals, compute the cutoff and print the notice.
Rank ==
    /\ cpc = "rank"
    /\ \E o \in IterOrders(DOMAIN histogram) :
          ranking' = SortDesc(o, Totals(histogram))
    /\ total_events' = SumValues(Totals(histogram))
    /\ cutoff' = Cutoff(total_events', suppress)
    /\ output' = IF cutoff' > 0 THEN <<<<"notice", cutoff'>>>> ELSE <<>>
    /\ cpc' = "render"
    /\ UNCHANGED <<argVars, producerVars, mpc, data, aggVars, nrecv>>

\* main.rs:144-161: one iteration of the loop over the sorted buckets.
RenderBucket ==
    /\ cpc = "render"
    /\ ranking # <<>>
    /\ ranking' = Tail(ranking)
    /\ LET a == Head(ranking)
       IN IF Kept(histogram[a].total, cutoff)
          THEN \E io \in IterOrders(DOMAIN histogram[a].inner) :
                  output' = output \o BucketLines(histogram, a, io)
          ELSE output' = output
    /\ UNCHANGED <<argVars, producerVars, mpc, cpc, data, aggVars, nrecv,
                   total_events, cutoff>>

\* ListPackages over events_by_package.drain(): the map is left empty.
ListPackagesDrain ==
    /\ cpc = "render"
    /\ ranking = <<>>
    /\ \E po \in IterOrders(DOMAIN events_by_package) :
          output' = output \o PackageLines(events_by_package, po)
    /\ events_by_package' = EmptyMap
    /\ cpc' = "stats"
    /\ UNCHANGED <<argVars, producerVars, mpc, data, histogram, foldedBag, ingested,
                   nrecv, ranking, total_events, cutoff>>

\* main.rs:163-166: the per-package listing.
ListPackages ==
    /\ cpc = "render"
    /\ ranking = <<>>
    /\ \E po \in IterOrders(DOMAIN events_by_package) :
          output' = output \o PackageLines(events_by_package, po)
    /\ cpc' = "stats"
    /\ UNCHANGED <<argVars, producerVars, mpc, data, aggVars, nrecv, ranking,
                   total_events, cutoff>>

\* main.rs:167-177: the summary; the division at line 168 panics ("attempt to
\* divide by zero") when events_by_package is empty.
Summarize ==
    /\ cpc = "stats"
    /\ IF Cardinality(DOMAIN events_by_package) = 0
       THEN /\ cpc' = "panicked"
            /\ output' = output
       ELSE /\ cpc' = "done"
            /\ output' = Append(output,
                  <<"summary", Cardinality(DOMAIN events_by_package),
                    Average(events_by_package), StdDev(events_by_package)>>)
    /\ UNCHANGED <<argVars, producerVars, mpc, data, aggVars, nrecv, ranking,
                   total_events, cutoff>>

Next ==
    \/ NewWorker
    \/ NewWorkerErr
    \/ ExecutorOk
    \/ ExecutorErr
    \/ JoinOk
    \/ JoinErr
    \/ RuntimeShutdown
    \/ \E batch \in Batches : Send(batch)
    \/ Complete
    \/ Fail
    \/ RecvBatch
    \/ FoldEvent
    \/ EndBatch
    \/ EndStream
    \/ Rank
    \/ RenderBucket
    \/ ListPackages
    \/ Summarize

Spec == Init /\ [][Next]_vars

\* ------------------------------------------------- the report, from a workload
\* A workload is a list of <<event-record, number of occurrences>>: the content of
\* a stream.  The second specification starts where the producer has sent such a
\* stream and completed, and runs the consumer on it: streams larger than the
\* first specification's bounds allow, without the interleavings.
Workloads ==
    { <<>>,
      << <<[type_ |-> FooBarTag, package_id |-> "0x1"], 3>> >>,
      << <<[type_ |-> FooBarTag, package_id |-> "0x1"], 1>>,
         <<[type_ |-> BarTag, package_id |-> "0x2"], 2>> >>,
      << <<[type_ |-> FooBarTag, package_id |-> "0x1"], 1>>,
         <<[type_ |-> FooVecTag, package_id |-> "0x2"], 1>>,
         <<[type_ |-> BarTag, package_id |-> "0x2"], 2>> >>,
      << <<[type_ |-> FooBarTag, package_id |-> "0x1"], 10>>,
         <<[type_ |-> BarTag, package_id |-> "0x2"], 50>> >>,
      << <<[type_ |-> FooBarTag, package_id |-> "0x1"], 4>>,
         <<[type_ |-> BarTag, package_id |-> "0x2"], 5>>,
         <<[type_ |-> PairTag, package_id |-> "0x2"], 991>> >> }

\* The values of --suppress tried on the workloads: 0, 0.5 (the default), 50, 100.
ReportSuppressArgs ==
    {[num |-> 0, den |-> 1], [num |-> 1, den |-> 2], [num |-> 50, den |-> 1],
     [num |-> 100, den |-> 1]}

RECURSIVE BatchOf(_), BagAfter(_)
\* The workload w as one batch: each event-record as often as it occurs.
BatchOf(w) ==
    IF w = <<>> THEN <<>>
    ELSE [i \in 1..w[1][2] |-> w[1][1]] \o BatchOf(Tail(w))

\* How often each event-record occurs in the workload w.
BagAfter(w) ==
    IF w = <<>> THEN NoEvents
    ELSE [BagAfter(Tail(w)) EXCEPT ![w[1][1]] = @ + w[1][2]]

\* The producer has sent a workload in one batch and completed; main awaits the
\* consumer, which has not yet received the batch.
InitReport ==
    /\ suppress \in ReportSuppressArgs
    /\ follow = FALSE
    /\ limit = DefaultCount
    /\ latest_checkpoint = Modulus - 1
    /\ initial = Max(Modulus - 1 - DefaultCount, 0)
    /\ ppc = "ok"
    /\ \E w \in Workloads :
          /\ chan = <<BatchOf(w)>>
          /\ sentBag = BagAfter(w)
    /\ closed = TRUE
    /\ nsent = 1
    /\ mpc = "await_join"
    /\ cpc = "recv"
    /\ data = <<>>
    /\ histogram = EmptyMap
    /\ events_by_package = EmptyMap
    /\ foldedBag = NoEvents
    /\ nrecv = 0
    /\ ingested = 0
    /\ ranking = <<>>
    /\ total_events = 0
    /\ cutoff = 0
    /\ output = <<>>

NextReport ==
    \/ RecvBatch
    \/ FoldEvent
    \/ EndBatch
    \/ EndStream
    \/ Rank
    \/ RenderBucket
    \/ ListPackages
    \/ Summarize
    \/ JoinOk
    \/ JoinErr

SpecReport == InitReport /\ [][NextReport]_vars

\* ------------------------------------------------------------ properties
\* The consumer has left the receive loop.
AfterLoop == cpc \in {"rank", "render", "stats", "done", "panicked"}

\* The buckets have all been rendered or skipped.
BucketsRendered == cpc \in {"stats", "done", "panicked"}

\* The address a has a line in the report.
Rendered(a) == \E i \in 1..Len(output) : output[i][1] = "bucket" /\ output[i][3] = a

\* C1. Conservation: after every folded event-record, the bucket totals sum to
\* the number of event-records ingested, and so do the per-package counts.
Conservation ==
    /\ SumValues(Totals(histogram)) = ingested
    /\ SumValues(events_by_package) = ingested

\* Two batches, one of them of a single event or empty, folded into two buckets
\* and two packages.
ConservationWitness ==
    /\ nrecv = 2
    /\ cpc = "recv"
    /\ ingested \in {2, 3}
    /\ Cardinality(DOMAIN histogram) = 2
    /\ Cardinality(DOMAIN events_by_package) = 2

\* C9. Nested sum: the per-type counts of every bucket sum to the bucket's total,
\* and every bucket total and every per-type count that exists is at least 1.
NestedSum ==
    \A a \in DOMAIN histogram :
        /\ SumValues(histogram[a].inner) = histogram[a].total
        /\ histogram[a].total >= 1
        /\ \A t \in DOMAIN histogram[a].inner : histogram[a].inner[t] >= 1

\* A bucket of two event types, one of them counted twice.
NestedSumWitness ==
    \E a \in DOMAIN histogram :
        /\ Cardinality(DOMAIN histogram[a].inner) = 2
        /\ histogram[a].total = 3

\* The bucket totals and per-type counts of a bag of event-records, by counting.
HistogramOf(bag) ==
    LET present == {e \in DOMAIN bag : bag[e] > 0}
        count(S) == SumSet(S, bag)
    IN [a \in {e.type_.address : e \in present} |->
          [total |-> count({e \in present : e.type_.address = a}),
           inner |-> [t \in {e.type_ : e \in {x \in present : x.type_.address = a}} |->
                         count({e \in present : e.type_ = t})]]]

\* The per-package counts of a bag of event-records, by counting.
PackagesOf(bag) ==
    LET present == {e \in DOMAIN bag : bag[e] > 0}
    IN [k \in {e.package_id : e \in present} |->
          SumSet({e \in present : e.package_id = k}, bag)]

\* C10. Order independence: the final bucket totals, per-type counts and
\* per-package counts are those of the multiset of event-records sent, whatever
\* the order of the batches and of the events in them.
OrderIndependence ==
    AfterLoop => /\ histogram = HistogramOf(sentBag)
                 /\ events_by_package = PackagesOf(sentBag)

\* The loop has ended on a stream of four event-records of three kinds.
OrderIndependenceWitness ==
    /\ cpc = "rank"
    /\ SumValues(sentBag) = 4
    /\ Cardinality({e \in DOMAIN sentBag : sentBag[e] > 0}) = 3

\* C5. Drain before finalize: once the consumer has left the receive loop, and so
\* whenever a line of the report exists, the channel is closed and empty and every
\* batch and event-record enqueued has been folded exactly once.
DrainBeforeFinalize ==
    (AfterLoop \/ output # <<>>) =>
        /\ closed
        /\ chan = <<>>
        /\ data = <<>>
        /\ nrecv = nsent
        /\ foldedBag = sentBag

\* The report has begun after two batches of three or more event-records.
DrainBeforeFinalizeWitness ==
    /\ output # <<>>
    /\ nsent = 2
    /\ ingested >= 3

\* C3. Cutoff correctness: the cutoff is total_events * suppress / 100 rounded to
\* a nearest integer; a bucket is rendered iff its total is at least the cutoff;
\* a cutoff of 0 (suppress = 0 or no events) discards nothing; 1000 events at
\* 0.5 per cent give the cutoff 5, which drops a bucket of 4 and keeps one of 5.
CutoffCorrectness ==
    BucketsRendered =>
        LET total == SumValues(Totals(histogram))
            scale == 100 * suppress.den
        IN /\ 2 * (cutoff * scale - total * suppress.num) <= scale
           /\ 2 * (total * suppress.num - cutoff * scale) <= scale
           /\ \A a \in DOMAIN histogram : Rendered(a) <=> histogram[a].total >= cutoff
           /\ (suppress.num = 0 \/ total = 0) =>
                 /\ cutoff = 0
                 /\ \A a \in DOMAIN histogram : Rendered(a)
           /\ (total = 1000 /\ suppress = [num |-> 1, den |-> 2]) =>
                 /\ cutoff = 5
                 /\ \A a \in DOMAIN histogram :
                       /\ histogram[a].total = 4 => ~Rendered(a)
                       /\ histogram[a].total = 5 => Rendered(a)

\* 1000 events at 0.5 per cent: the bucket of 5 is in the report, that of 4 is not.
CutoffCorrectnessWitness ==
    /\ cpc = "done"
    /\ total_events = 1000
    /\ cutoff = 5
    /\ \E a, b \in DOMAIN histogram :
          /\ histogram[a].total = 5 /\ Rendered(a)
          /\ histogram[b].total = 4 /\ ~Rendered(b)

RECURSIVE RenderAll(_, _, _, _)
\* main.rs:144-161: the lines of the sorted buckets rk, the inner maps iterated in
\* the orders oi.
RenderAll(h, rk, cut, oi) ==
    IF rk = <<>> THEN <<>>
    ELSE (IF Kept(h[Head(rk)].total, cut) THEN BucketLines(h, Head(rk), oi[Head(rk)])
          ELSE <<>>)
         \o RenderAll(h, Tail(rk), cut, oi)

\* main.rs:133-177: the whole output of a run that ends the loop with the
\* histogram h and the per-package counts p, when the histogram iterates in the
\* order oh, the inner map of address a in the order oi[a], and the per-package
\* map in the order op.
ReportWith(h, p, sup, oh, oi, op) ==
    LET cut == Cutoff(SumValues(Totals(h)), sup)
    IN (IF cut > 0 THEN <<<<"notice", cut>>>> ELSE <<>>)
       \o RenderAll(h, SortDesc(oh, Totals(h)), cut, oi)
       \o PackageLines(p, op)
       \o (IF DOMAIN p = {} THEN <<>>
           ELSE <<<<"summary", Cardinality(DOMAIN p), Average(p), StdDev(p)>>>>)

\* The iteration orders of the inner maps, one per bucket.
InnerOrders(h) ==
    {oi \in [DOMAIN h -> UNION {IterOrders(DOMAIN h[a].inner) : a \in DOMAIN h}] :
        \A a \in DOMAIN h : oi[a] \in IterOrders(DOMAIN h[a].inner)}

\* The consumer task has ended.
Finished == cpc \in {"done", "panicked"}

\* The output of a finished consumer is that of a run in some iteration orders.
ReportIsARun ==
    Finished =>
        \E oh \in IterOrders(DOMAIN histogram), oi \in InnerOrders(histogram),
           op \in IterOrders(DOMAIN events_by_package) :
            output = ReportWith(histogram, events_by_package, suppress, oh, oi, op)

\* C2. Determinism: the output of a run is fixed by the stream it ingested: every
\* run on the same aggregates, whatever the iteration orders of its maps, prints
\* the same lines in the same order.
Determinism ==
    Finished =>
        \A oh \in IterOrders(DOMAIN histogram), oi \in InnerOrders(histogram),
           op \in IterOrders(DOMAIN events_by_package) :
            output = ReportWith(histogram, events_by_package, suppress, oh, oi, op)

\* C4. Empty input: a stream of no event-records ends with no buckets and a
\* consumer that finishes, with a defined summary, without a crash.
EmptyInputNoCrash ==
    (AfterLoop /\ ingested = 0) =>
        /\ DOMAIN histogram = {}
        /\ cpc # "panicked"

\* The summary line of a finished report.
SummaryLine == output[Len(output)]

\* C6. The reported standard deviation is the population standard deviation of
\* the per-package counts: its square is (N * sum x^2 - (sum x)^2) / N^2, which is
\* 400 (stddev 20) for the counts 10 and 50 and 0 for a single package.
PopulationStdDev ==
    cpc = "done" =>
        LET p == events_by_package
            n == Cardinality(DOMAIN p)
            sq == [k \in DOMAIN p |-> p[k] * p[k]]
            dev == SummaryLine[4]
        IN /\ dev[1] = "sqrt"
           /\ dev[2] * n * n = dev[3] * (n * SumValues(sq) - SumValues(p) * SumValues(p))
           /\ {p[k] : k \in DOMAIN p} = {10, 50} /\ n = 2 => dev[2] = 400 * dev[3]
           /\ n = 1 => dev[2] = 0

\* C7. The reported mean is the exact quotient of the total of the per-package
\* counts by the number of packages.
ExactMean ==
    cpc = "done" =>
        SummaryLine[3] * Cardinality(DOMAIN events_by_package)
            = SumValues(events_by_package)

\* C8, as claimed: when the producer's completion handle reports failure, the
\* program does not exit before the consumer task has finalized the (valid)
\* partial aggregates and rendered them.
PartialReportBeforeExit ==
    (ppc = "failed" /\ MainReturned) =>
        /\ Conservation
        /\ NestedSum
        /\ Finished

\* C8, amended: when the completion handle reports failure, the partial
\* aggregates satisfy conservation and the nested sums in every state and are
\* finalized only on a drained channel, but main returns the error at once,
\* without awaiting the consumer task.
PartialAggregatesValid ==
    ppc = "failed" =>
        /\ Conservation
        /\ NestedSum
        /\ AfterLoop => (chan = <<>> /\ foldedBag = sentBag)
        /\ MainReturned => mpc = "err_executor"

\* The producer failed and main returned while a batch was still in the channel:
\* the consumer was dropped at recv() and printed nothing.
PartialAggregatesValidWitness ==
    /\ ppc = "failed"
    /\ mpc = "err_executor"
    /\ cpc = "cancelled"
    /\ chan # <<>>
    /\ ingested >= 1
    /\ output = <<>>

\* The string s has sub as a substring.
Contains(s, sub) ==
    \E i \in 1..(Len(s) - Len(sub) + 1) : SubSeq(s, i, i + Len(sub) - 1) = sub

\* The type of the model that line i of the report renders: line i is a type line
\* of the bucket whose line is the nearest one above it.
TypesOfLine(i) ==
    LET b == CHOOSE k \in 1..i :
                 /\ output[k][1] = "bucket"
                 /\ \A m \in (k + 1)..i : output[m][1] = "type"
    IN {t \in DOMAIN histogram[output[b][3]].inner :
           histogram[output[b][3]].inner[t] = output[i][2]}

\* The text the claim gives for each event type of the model.
ExpectedShort ==
    (BarTag :> "mod::Bar")
    @@ (FooBarTag :> "mod::Foo<mod::Bar>")
    @@ (FooVecTag :> "mod::Foo<Vector<mod::Bar>>")
    @@ (PairTag :> "pool::Pair<u64, mod::Bar>")

\* C13. Type-name rendering: every event type is printed as module::name, then
\* <p1, p2, ...> with the parameters rendered recursively when there are any, a
\* vector parameter as Vector<element>, a primitive as its canonical text, and
\* never with the address of a struct type.
TypeRendering ==
    \A i \in 1..Len(output) :
        output[i][1] = "type" =>
            /\ \E t \in TypesOfLine(i) : output[i][3] = ExpectedShort[t]
            /\ \A a \in {"0xa", "0xb", "0xc"} : ~Contains(output[i][3], a)

\* The report shows a struct parameter, a vector parameter and a primitive one.
TypeRenderingWitness ==
    /\ \E i \in 1..Len(output) : output[i] = <<"type", 1, "mod::Foo<mod::Bar>">>
    /\ \E i \in 1..Len(output) : output[i] = <<"type", 1, "mod::Foo<Vector<mod::Bar>>">>

\* A report with the parameters u64 and mod::Bar joined by ", ".
TypeRenderingPairWitness ==
    \E i \in 1..Len(output) : output[i] = <<"type", 991, "pool::Pair<u64, mod::Bar>">>

\* The lines of the report of one kind.
LinesOf(kind) == {i \in 1..Len(output) : output[i][1] = kind}

\* What the report shows is what the aggregates hold: each bucket line, type line
\* and package line carries the count of its entry, each entry is shown at most
\* once, and the total and the number of packages are those of the aggregates.
RenderedValuesExact ==
    /\ \A i \in LinesOf("bucket") :
          /\ output[i][3] \in DOMAIN histogram
          /\ output[i][2] = histogram[output[i][3]].total
          /\ \A j \in LinesOf("bucket") : output[j][3] = output[i][3] => j = i
    /\ \A i \in LinesOf("type") : TypesOfLine(i) # {}
    /\ \A i \in LinesOf("package") :
          /\ output[i][2] \in DOMAIN events_by_package
          /\ output[i][3] = events_by_package[output[i][2]]
          /\ \A j \in LinesOf("package") : output[j][2] = output[i][2] => j = i
    /\ \A i \in LinesOf("summary") :
          /\ output[i][2] = Cardinality(DOMAIN events_by_package)
          /\ output[i][3] = Average(events_by_package)
          /\ output[i][4] = StdDev(events_by_package)
    /\ cpc \in {"render", "stats", "done", "panicked"} => total_events = ingested

\* C12. Frozen after stream end: once the receive loop has ended, no step changes
\* the histogram, its nested tables or the per-package counters, the consumer
\* never returns to the loop, and what is rendered and summarized are the values
\* held when the loop ended, each entry at most once.
FrozenAfterStreamEnd ==
    [][ /\ AfterLoop => (UNCHANGED <<histogram, events_by_package>> /\ AfterLoop')
        /\ RenderedValuesExact' ]_vars

\* A finished report of two buckets and two packages.
FrozenAfterStreamEndWitness ==
    /\ cpc = "done"
    /\ Cardinality(LinesOf("bucket")) = 2
    /\ Cardinality(LinesOf("package")) = 2
    /\ ingested >= 3

\* C15. Ranking order: the bucket lines are in non-increasing order of total, the
\* type lines of a bucket in non-increasing order of count, and a rendered bucket
\* is followed by a line for every one of its event types, whatever the cutoff.
RankingOrder ==
    /\ \A i, j \in LinesOf("bucket") : i < j => output[i][2] >= output[j][2]
    /\ \A i \in LinesOf("type") :
          (i + 1) \in LinesOf("type") => output[i][2] >= output[i + 1][2]
    /\ \A i \in LinesOf("bucket") :
          LET inner == histogram[output[i][3]].inner
              n == Cardinality(DOMAIN inner)
          IN /\ i + n <= Len(output)
             /\ \A k \in (i + 1)..(i + n) : output[k][1] = "type"
             /\ (i + n + 1) \notin LinesOf("type")
             /\ \A t \in DOMAIN inner :
                   \E k \in (i + 1)..(i + n) :
                       output[k] = <<"type", inner[t], ExpectedShort[t]>>

\* A rendered bucket whose types are counted 2 and 1, the latter below the cutoff.
RankingOrderWitness ==
    /\ cutoff = 2
    /\ \E i \in LinesOf("type") :
          /\ (i + 1) \in LinesOf("type")
          /\ output[i][2] = 2
          /\ output[i + 1][2] = 1

\* Two rendered buckets of different totals.
RankingOrderBucketsWitness ==
    \E i, j \in LinesOf("bucket") : output[i][2] > output[j][2]

\* The count of key k in the map m, 0 when there is no entry.
CountAt(m, k) == IF k \in DOMAIN m THEN m[k] ELSE 0

\* The per-type counts of address a in the histogram h, empty without a bucket.
InnerAt(h, a) == IF a \in DOMAIN h THEN h[a].inner ELSE EmptyMap

\* The step folds the event-record e: the bucket of its address, the nested count
\* of its type and the count of its package go up by 1 (from 0 when new), and
\* nothing else changes.
FoldsExactly(e) ==
    /\ DOMAIN histogram' = DOMAIN histogram \cup {e.type_.address}
    /\ \A a \in DOMAIN histogram' :
          /\ histogram'[a].total =
                CountAt(Totals(histogram), a) + (IF a = e.type_.address THEN 1 ELSE 0)
          /\ DOMAIN histogram'[a].inner =
                DOMAIN InnerAt(histogram, a)
                    \cup (IF a = e.type_.address THEN {e.type_} ELSE {})
          /\ \A t \in DOMAIN histogram'[a].inner :
                histogram'[a].inner[t] =
                    CountAt(InnerAt(histogram, a), t) + (IF t = e.type_ THEN 1 ELSE 0)
    /\ DOMAIN events_by_package' = DOMAIN events_by_package \cup {e.package_id}
    /\ \A k \in DOMAIN events_by_package' :
          events_by_package'[k] =
              CountAt(events_by_package, k) + (IF k = e.package_id THEN 1 ELSE 0)

\* C16. Monotonic accumulation: no step removes a key or lowers a bucket total,
\* a nested count or a package count; the aggregates change only when an
\* event-record is folded, and then exactly as FoldsExactly says.
MonotonicAccumulation ==
    [][ /\ DOMAIN histogram \subseteq DOMAIN histogram'
        /\ \A a \in DOMAIN histogram :
              /\ histogram'[a].total >= histogram[a].total
              /\ DOMAIN histogram[a].inner \subseteq DOMAIN histogram'[a].inner
              /\ \A t \in DOMAIN histogram[a].inner :
                    histogram'[a].inner[t] >= histogram[a].inner[t]
        /\ DOMAIN events_by_package \subseteq DOMAIN events_by_package'
        /\ \A k \in DOMAIN events_by_package :
              events_by_package'[k] >= events_by_package[k]
        /\ (ingested' # ingested \/ histogram' # histogram
                \/ events_by_package' # events_by_package) =>
              /\ cpc = "fold"
              /\ data # <<>>
              /\ ingested' = ingested + 1
              /\ FoldsExactly(Head(data)) ]_vars

\* An event-record has just been folded into a bucket and a package that existed,
\* beside another bucket and another package.
MonotonicAccumulationWitness ==
    /\ cpc = "fold"
    /\ ingested >= 3
    /\ Cardinality(DOMAIN histogram) = 2
    /\ Cardinality(DOMAIN events_by_package) = 2
    /\ \E a \in DOMAIN histogram : histogram[a].total >= 2
    /\ \E k \in DOMAIN events_by_package : events_by_package[k] >= 2

\* C19. Suppression does not touch the package statistics: whatever the cutoff
\* discards, the listing has a line for every package of an ingested event-record,
\* with the count of all its event-records, and the summary is computed from the
\* counts of all ingested event-records.
PackagesUnsuppressed ==
    cpc \in {"stats", "done", "panicked"} =>
        LET all == PackagesOf(foldedBag)
        IN /\ {output[i] : i \in LinesOf("package")}
                = {<<"package", k, all[k]>> : k \in DOMAIN all}
           /\ Cardinality(LinesOf("package")) = Cardinality(DOMAIN all)
           /\ total_events = SumValues(foldedBag)
           /\ cpc = "done" =>
                 SummaryLine = <<"summary", Cardinality(DOMAIN all), Average(all),
                                 StdDev(all)>>

\* A finished report whose cutoff discarded every bucket of package 0x1, which is
\* listed with its 10 event-records.
PackagesUnsuppressedWitness ==
    /\ cpc = "done"
    /\ cutoff = 30
    /\ ~Rendered("0xa")
    /\ \E i \in LinesOf("package") : output[i] = <<"package", "0x1", 10>>

\* ------------------------------------------------- the start of main
\* The third specification runs main from its first await to
\* EventExtractWorker::new, for every --count, --follow and latest checkpoint.
restVars == <<producerVars, cpc, data, aggVars, nrecv, reportVars>>

\* main.rs:69: the arguments are parsed; the client is about to be built.
InitStart ==
    /\ suppress = [num |-> 1, den |-> 2]
    /\ follow \in BOOLEAN
    /\ limit \in 0..(Modulus - 1)
    /\ latest_checkpoint = 0
    /\ initial = 0
    /\ ppc = "idle"
    /\ chan = <<>>
    /\ closed = FALSE
    /\ sentBag = NoEvents
    /\ nsent = 0
    /\ mpc = "build_client"
    /\ cpc = "idle"
    /\ data = <<>>
    /\ histogram = EmptyMap
    /\ events_by_package = EmptyMap
    /\ foldedBag = NoEvents
    /\ nrecv = 0
    /\ ingested = 0
    /\ ranking = <<>>
    /\ total_events = 0
    /\ cutoff = 0
    /\ output = <<>>

\* main.rs:71-74: the client is built.
BuildClient ==
    /\ mpc = "build_client"
    /\ mpc' = "get_latest"
    /\ UNCHANGED <<argVars, restVars>>

\* main.rs:73: building the client fails and `?` returns the error.
BuildClientErr ==
    /\ mpc = "build_client"
    /\ mpc' = "err_client"
    /\ UNCHANGED <<argVars, restVars>>

\* main.rs:77-80: the full node answers with its latest checkpoint v.
GetLatest(v) ==
    /\ mpc = "get_latest"
    /\ latest_checkpoint' = v
    /\ mpc' = "compute_initial"
    /\ UNCHANGED <<suppress, follow, limit, initial, restVars>>

\* main.rs:80: the request fails and `?` returns the error.
GetLatestErr ==
    /\ mpc = "get_latest"
    /\ mpc' = "err_latest"
    /\ UNCHANGED <<argVars, restVars>>

\* main.rs:84-97: the starting checkpoint: latest_checkpoint when following,
\* (latest_checkpoint - limit).max(0) otherwise.
ComputeInitial ==
    /\ mpc = "compute_initial"
    /\ IF follow
       THEN /\ initial' = latest_checkpoint
            /\ mpc' = "new"
       ELSE \E r \in SubUnsigned(latest_checkpoint, limit) :
               IF r[1] = "panic"
               THEN /\ mpc' = "panicked_main"
                    /\ initial' = initial
               ELSE /\ initial' = Max(r[2], 0)
                    /\ mpc' = "new"
    /\ UNCHANGED <<suppress, follow, limit, latest_checkpoint, restVars>>

NextStart ==
    \/ BuildClient
    \/ BuildClientErr
    \/ \E v \in 0..(Modulus - 1) : GetLatest(v)
    \/ GetLatestErr
    \/ ComputeInitial
    \/ NewWorker
    \/ NewWorkerErr

SpecStart == InitStart /\ [][NextStart]_vars

\* C18. Start checkpoint clamp: when not following, the starting checkpoint is
\* latest_checkpoint - count clamped at 0: at most latest_checkpoint, 0 whenever
\* count >= latest_checkpoint, computed without overflow; when following it is
\* latest_checkpoint.
StartCheckpointClamp ==
    /\ mpc # "panicked_main"
    /\ mpc \in {"new", "err_new", "await_executor"} =>
          IF follow THEN initial = latest_checkpoint
          ELSE /\ initial <= latest_checkpoint
               /\ limit >= latest_checkpoint => initial = 0
               /\ limit <= latest_checkpoint => initial = latest_checkpoint - limit

\* C14. Exit status: main returns success only after construction succeeded, the
\* completion handle reported Ok and the consumer task finished without a panic;
\* a failed construction, a failed completion handle and a panicked consumer each
\* make main return an error.
ExitStatus ==
    /\ mpc = "exit_ok" => (ppc = "ok" /\ cpc = "done")
    /\ mpc = "err_new" => (ppc = "idle" /\ cpc = "idle")
    /\ (MainReturned /\ ppc = "idle") => mpc = "err_new"
    /\ (MainReturned /\ ppc = "failed") => mpc = "err_executor"
    /\ (MainReturned /\ cpc = "panicked") => mpc \in {"err_executor", "err_join"}

\* main has returned success after a stream of two batches.
ExitStatusWitness ==
    /\ mpc = "exit_ok"
    /\ nsent = 2
    /\ ingested >= 2

\* C17. Termination: the consumer leaves the receive loop only on a closed and
\* empty channel, prints nothing while the channel is open and empty, and once
\* the channel is closed it goes on to finish the report: it is never stopped
\* short of it (a stopped consumer takes no further step, so it would never
\* finish).
TerminationByClosure ==
    /\ cpc \notin {"idle", "recv", "fold"} => (closed /\ chan = <<>>)
    /\ (cpc = "recv" /\ ~closed /\ chan = <<>>) => output = <<>>
    /\ closed => cpc \notin {"panicked", "cancelled"}

\* C20. Report before exit on success: when the completion handle reported Ok,
\* main returns only after the consumer has drained the channel and printed the
\* whole report, down to the summary line.
ReportBeforeExit ==
    (ppc = "ok" /\ MainReturned) =>
        /\ cpc = "done"
        /\ chan = <<>>
        /\ foldedBag = sentBag
        /\ output # <<>>
        /\ SummaryLine[1] = "summary"

\* A successful return of main always comes with a whole report.
SuccessHasReport ==
    mpc = "exit_ok" =>
        /\ cpc = "done"
        /\ foldedBag = sentBag
        /\ SummaryLine[1] = "summary"

====
